---- MODULE Spec2Model ----
(***************************************************************************)
(* fast_vector<T, Rows> and fast_vector_expr<T, LeftExpr, BinaryOp,        *)
(* RightExpr> of include/dll/neural/recurrent_layer_impl.hpp (lines        *)
(* 252-558): a fixed-length vector and the expression templates built by   *)
(* its arithmetic producers.                                               *)
(*                                                                         *)
(* T is modelled as an unsigned integer type of Modulus values, so the     *)
(* arithmetic is total except for division by zero.  Indices are 1-based   *)
(* here (index i of the model is index i-1 of the source).                 *)
(*                                                                         *)
(* Expression objects live in `heap`, one record per fast_vector_expr      *)
(* object of the current full-expression; an operand held by reference     *)
(* names the object it refers to, and the object's `live` field says       *)
(* whether it has been destroyed.  The three reads the source leaves       *)
(* undefined (an index past the end of _data, a reference to a destroyed   *)
(* temporary, an integer division by zero) either stop the program (the    *)
(* dbn_assert of a debug build, a trap) or yield an arbitrary value of T;  *)
(* the behaviour ends there.                                               *)
(***************************************************************************)
EXTENDS Integers, Sequences, FiniteSets, TLC

\* Rows of the vectors a and c; b has N or N - 1 rows.
N == 2
\* T == 0 .. Modulus - 1, arithmetic modulo Modulus.
Modulus == 9
\* Scalar literals are 2 .. MaxScalar.
MaxScalar == 2
\* Operations on expressions (producers, store, consumers) per behaviour.
MaxOps == 4
\* fast_vector_expr objects per expression.
MaxNodes == 2
\* Expressions built per behaviour.
MaxExprs == 1
\* Direct vector statements (fill, element write, move, /=, += vector) per
\* behaviour; a behaviour runs direct statements or the life of expressions.
MaxStmts == 2

T == 0 .. (Modulus - 1)
Scalars == 2 .. MaxScalar
\* The element values the vectors start with.
InitVals == {1, 2}
VecNames == {"a", "b", "c"}
Ops == {"plus", "minus", "mul", "div"}

VARIABLES vecs, rows, alive, heap, phase, uses, built, ops, stmts, last

vars == <<vecs, rows, alive, heap, phase, uses, built, ops, stmts, last>>

----------------------------------------------------------------------------
\* Operands: what a producer or a compound update is handed.

NoOperand == [kind |-> "none", name |-> "-", num |-> 0, hold |-> "-"]
VecOperand(v) == [kind |-> "vec", name |-> v, num |-> 0, hold |-> "-"]
ScalarOperand(s) == [kind |-> "scalar", name |-> "-", num |-> s, hold |-> "-"]
ExprOperand(k) == [kind |-> "expr", name |-> "-", num |-> k, hold |-> "-"]
ElemOperand(v, j) == [kind |-> "elem", name |-> v, num |-> j, hold |-> "-"]

----------------------------------------------------------------------------
\* The binary operators.

plus_binary_op(lhs, rhs) == (lhs + rhs) % Modulus
minus_binary_op(lhs, rhs) == (lhs - rhs) % Modulus
mul_binary_op(lhs, rhs) == (lhs * rhs) % Modulus
\* The caller keeps rhs # 0: the source has no check.
div_binary_op(lhs, rhs) == lhs \div rhs

Apply(op, lhs, rhs) ==
    CASE op = "plus" -> plus_binary_op(lhs, rhs)
      [] op = "minus" -> minus_binary_op(lhs, rhs)
      [] op = "mul" -> mul_binary_op(lhs, rhs)
      [] op = "div" -> div_binary_op(lhs, rhs)

\* A scalar that let the index through.
ScalarAtIndexed(value, i) == (value * i) % Modulus
\* scalar<T>::operator[]: the index is ignored.
ScalarAt(value, i) == value

----------------------------------------------------------------------------
\* Indexed evaluation.  A read yields [val, fault]; g is the value an
\* undefined read yields.

FirstFault(f1, f2) == IF f1 # "none" THEN f1 ELSE f2

\* fast_vector::operator[] const: _data[i], defined for i < rows only.
VectorAt(store, v, i, g) ==
    IF i <= Len(store[v])
    THEN [val |-> store[v][i], fault |-> "none"]
    ELSE [val |-> g, fault |-> "oob"]

RECURSIVE ExprAt(_, _, _, _, _)

\* lhs()[i] / rhs()[i]: the operand is a vector, a scalar<T> or an expression
\* object, reached through the reference or the value the node holds.
OperandAt(store, hp, o, i, g) ==
    CASE o.kind = "scalar" -> [val |-> ScalarAt(o.num, i), fault |-> "none"]
      [] o.kind = "vec" -> VectorAt(store, o.name, i, g)
      [] o.kind = "expr" ->
            IF hp[o.num].live
            THEN ExprAt(store, hp, o.num, i, g)
            ELSE [val |-> g, fault |-> "dangling"]

\* fast_vector_expr::operator[]: BinaryOp::apply(lhs()[i], rhs()[i]).
ExprAt(store, hp, k, i, g) ==
    LET l == OperandAt(store, hp, hp[k].lhs, i, g)
        r == OperandAt(store, hp, hp[k].rhs, i, g)
        f == FirstFault(l.fault, r.fault)
    IN  IF hp[k].op = "div" /\ r.val = 0
        THEN [val |-> g, fault |-> FirstFault(f, "divzero")]
        ELSE [val |-> Apply(hp[k].op, l.val, r.val), fault |-> f]

----------------------------------------------------------------------------
\* Vector storage.

\* std::fill(_data.begin(), _data.end(), value)
FillData(n, value) == [j \in 1 .. n |-> value]

\* A store that reaches the same index of every vector.
StoreAtEvery(store, dst, i, value) ==
    [v \in DOMAIN store |->
       IF i <= Len(store[v]) THEN [store[v] EXCEPT ![i] = value] ELSE store[v]]
\* _data[i] = value, on the vector dst only.
StoreAt(store, dst, i, value) == [store EXCEPT ![dst][i] = value]

\* A move that stops one element short.
MoveDataShort(data) ==
    [j \in 1 .. Len(data) |-> IF j < Len(data) THEN data[j] ELSE 0]
\* The defaulted move of std::array<T, Rows>: element by element; an
\* arithmetic T leaves the source as it was.
MoveData(data) == [j \in 1 .. Len(data) |-> data[j]]

\* for(i = 0; i < Rows; ++i) _data[i] = e[i];
RECURSIVE MaterializeLoop(_, _, _, _, _, _, _, _)
MaterializeLoop(store, dst, hp, root, i, g, trap, fault) ==
    IF i > Len(store[dst])
    THEN [store |-> store, fault |-> fault]
    ELSE LET e == ExprAt(store, hp, root, i, g)
         IN  IF e.fault # "none" /\ trap
             THEN [store |-> store, fault |-> e.fault]
             ELSE MaterializeLoop(StoreAt(store, dst, i, e.val), dst, hp, root,
                                  i + 1, g, trap, FirstFault(fault, e.fault))

\* for(i = 0; i < Rows; ++i) _data[i] += rhs[i];
RECURSIVE PlusAssignLoop(_, _, _, _, _, _, _, _)
PlusAssignLoop(store, dst, hp, rhs, i, g, trap, fault) ==
    IF i > Len(store[dst])
    THEN [store |-> store, fault |-> fault]
    ELSE LET e == OperandAt(store, hp, rhs, i, g)
         IN  IF e.fault # "none" /\ trap
             THEN [store |-> store, fault |-> e.fault]
             ELSE PlusAssignLoop(
                      StoreAt(store, dst, i, (store[dst][i] + e.val) % Modulus),
                      dst, hp, rhs, i + 1, g, trap, FirstFault(fault, e.fault))

\* The const T& value of operator/=: a temporary holding a literal, or an
\* element of a vector, read through the reference each time it is used.
ValueOf(store, value) ==
    IF value.kind = "elem" THEN store[value.name][value.num] ELSE value.num

\* A loop that stops one element short.
RECURSIVE DivAssignLoopShort(_, _, _, _, _, _, _)
DivAssignLoopShort(store, dst, value, i, g, trap, fault) ==
    IF i >= Len(store[dst])
    THEN [store |-> store, fault |-> fault]
    ELSE LET d == ValueOf(store, value)
         IN  IF d = 0 /\ trap
             THEN [store |-> store, fault |-> "divzero"]
             ELSE DivAssignLoopShort(
                      StoreAt(store, dst, i, IF d = 0 THEN g ELSE store[dst][i] \div d),
                      dst, value, i + 1, g, trap,
                      FirstFault(fault, IF d = 0 THEN "divzero" ELSE "none"))

\* for(i = 0; i < Rows; ++i) _data[i] /= value;
RECURSIVE DivAssignLoop(_, _, _, _, _, _, _)
DivAssignLoop(store, dst, value, i, g, trap, fault) ==
    IF i > Len(store[dst])
    THEN [store |-> store, fault |-> fault]
    ELSE LET d == ValueOf(store, value)
         IN  IF d = 0 /\ trap
             THEN [store |-> store, fault |-> "divzero"]
             ELSE DivAssignLoop(
                      StoreAt(store, dst, i, IF d = 0 THEN g ELSE store[dst][i] \div d),
                      dst, value, i + 1, g, trap,
                      FirstFault(fault, IF d = 0 THEN "divzero" ELSE "none"))

\* What an undefined read may do: trap, or yield any value of T.
Oracle(fault) ==
    IF fault = "none" THEN {<<FALSE, 0>>} ELSE {<<TRUE, 0>>} \cup ({FALSE} \X T)

----------------------------------------------------------------------------
\* What the overloads accept.

\* fast_vector(const fast_vector&) = delete; operator=(const fast_vector&) = delete
CopyAccepts == FALSE
\* fast_vector(fast_vector&&) = default: the same fast_vector<T, Rows> only.
MoveAccepts(rowsTo, rowsFrom) == rowsTo = rowsFrom
\* operator/=(const T& value)
DivAssignAccepts(kind) == kind \in {"scalar", "elem"}
\* template<typename RE> operator+=(RE&& rhs): rhs[i] must be well-formed.
PlusAssignAccepts(kind) == kind \in {"vec", "expr"}
\* operator*(T) and operator/(T) wrap a scalar; the RE&& overloads index re.
ProducerAccepts(op, kind) == kind # "scalar" \/ op \in {"mul", "div"}
\* fast_vector_expr(const fast_vector_expr&) = delete
ExprCopyAccepts == FALSE

----------------------------------------------------------------------------
\* Expression objects.

\* LeftExpr is const fast_vector& or this_type const&.
LeftHold(kind) == "ref"
\* RightExpr is scalar<T> for a T argument, decltype(std::forward<RE>(re)),
\* a reference, for a vector or an expression.
RightHold(kind) == IF kind = "scalar" THEN "val" ELSE "ref"

\* fast_vector_expr(LeftExpr l, RightExpr r)
Node(op, l, r) ==
    [op |-> op,
     lhs |-> [l EXCEPT !.hold = LeftHold(l.kind)],
     rhs |-> [r EXCEPT !.hold = RightHold(r.kind)],
     live |-> TRUE]

\* The objects that live inside object k: those it holds by value.
RECURSIVE Owned(_, _)
Owned(hp, k) ==
    {k} \cup UNION {Owned(hp, o.num) :
                      o \in {x \in {hp[k].lhs, hp[k].rhs} :
                               x.kind = "expr" /\ x.hold = "val"}}

\* End of the full-expression that initialises a named expression: every
\* temporary is destroyed; the named object and what it owns remain.
DestroyTemporaries(hp) ==
    [k \in 1 .. Len(hp) |-> [hp[k] EXCEPT !.live = (k \in Owned(hp, Len(hp)))]]

----------------------------------------------------------------------------
\* The record of the last operation: what was asked, on which state.

Record(stmt, dst, rhs, idx, val, fault, trap) ==
    [stmt |-> stmt, accepted |-> TRUE, dst |-> dst, rhs |-> rhs, idx |-> idx,
     val |-> val, fault |-> fault, trap |-> trap,
     pre |-> vecs, heap |-> heap, phase |-> phase, uses |-> uses]

Rejected(stmt, dst, rhs) ==
    [Record(stmt, dst, rhs, 0, 0, "none", FALSE) EXCEPT !.accepted = FALSE]

Running == last.accepted /\ last.fault = "none"
CanStmt == Running /\ ops = 0 /\ stmts < MaxStmts
CanOp == Running /\ stmts = 0 /\ ops < MaxOps

VecOperands == {VecOperand(v) : v \in alive}
ScalarOperands == {ScalarOperand(s) : s \in Scalars}
ElemOperands == UNION {{ElemOperand(v, j) : j \in 1 .. rows[v]} : v \in alive}
Root == ExprOperand(Len(heap))

----------------------------------------------------------------------------
Init ==
    /\ \E x \in [1 .. N -> InitVals], y \in InitVals, rb \in {N - 1, N} :
         /\ rows = [v \in VecNames |-> IF v = "b" THEN rb ELSE N]
         /\ vecs = [v \in VecNames |->
                      CASE v = "a" -> x
                        [] v = "b" -> FillData(rb, y)
                        [] v = "c" -> << >>]
    /\ alive = {"a", "b"}
    /\ heap = << >>
    /\ phase = "none"
    /\ uses = 0
    /\ built = 0
    /\ ops = 0
    /\ stmts = 0
    /\ last = [stmt |-> "init", accepted |-> TRUE, dst |-> "-", rhs |-> NoOperand,
               idx |-> 0, val |-> 0, fault |-> "none", trap |-> FALSE,
               pre |-> vecs, heap |-> << >>, phase |-> "none", uses |-> 0]

----------------------------------------------------------------------------
\* Direct vector statements.

\* void operator=(const T& value)
Fill(v, value) ==
    /\ CanStmt /\ v \in alive
    /\ vecs' = [vecs EXCEPT ![v] = FillData(rows[v], value)]
    /\ last' = Record("fill", v, ScalarOperand(value), 0, 0, "none", FALSE)
    /\ stmts' = stmts + 1
    /\ UNCHANGED <<rows, alive, heap, phase, uses, built, ops>>

\* T& operator[](size_t i) / T& operator()(size_t i), written through; i < rows.
SetAt(v, i, value) ==
    /\ CanStmt /\ v \in alive /\ i \in 1 .. rows[v]
    /\ vecs' = StoreAt(vecs, v, i, value)
    /\ last' = Record("set", v, ScalarOperand(value), i, 0, "none", FALSE)
    /\ stmts' = stmts + 1
    /\ UNCHANGED <<rows, alive, heap, phase, uses, built, ops>>

\* fast_vector& operator=(fast_vector&& rhs) = default
MoveAssign(y, x) ==
    /\ CanStmt /\ y \in alive /\ x \in alive
    /\ IF MoveAccepts(rows[y], rows[x])
       THEN /\ vecs' = [vecs EXCEPT ![y] = MoveData(vecs[x])]
            /\ last' = Record("move", y, VecOperand(x), 0, 0, "none", FALSE)
       ELSE /\ vecs' = vecs
            /\ last' = Rejected("move", y, VecOperand(x))
    /\ stmts' = stmts + 1
    /\ UNCHANGED <<rows, alive, heap, phase, uses, built, ops>>

\* fast_vector(fast_vector&& rhs) = default
MoveConstruct(y, x) ==
    /\ CanStmt /\ y \notin alive /\ x \in alive
    /\ IF MoveAccepts(rows[y], rows[x])
       THEN /\ vecs' = [vecs EXCEPT ![y] = MoveData(vecs[x])]
            /\ alive' = alive \cup {y}
            /\ last' = Record("move", y, VecOperand(x), 0, 0, "none", FALSE)
       ELSE /\ vecs' = vecs
            /\ alive' = alive
            /\ last' = Rejected("move", y, VecOperand(x))
    /\ stmts' = stmts + 1
    /\ UNCHANGED <<rows, heap, phase, uses, built, ops>>

\* fast_vector(const fast_vector&) / operator=(const fast_vector&): deleted.
Copy(y, x) ==
    /\ CanStmt /\ x \in alive /\ y # x
    /\ IF CopyAccepts
       THEN /\ vecs' = [vecs EXCEPT ![y] = vecs[x]]
            /\ alive' = alive \cup {y}
            /\ last' = Record("copy", y, VecOperand(x), 0, 0, "none", FALSE)
       ELSE /\ vecs' = vecs
            /\ alive' = alive
            /\ last' = Rejected("copy", y, VecOperand(x))
    /\ stmts' = stmts + 1
    /\ UNCHANGED <<rows, heap, phase, uses, built, ops>>

\* fast_vector& operator/=(const T& value)
DivAssign(dst, value) ==
    /\ CanStmt /\ dst \in alive
    /\ value \in ScalarOperands \cup ElemOperands \cup VecOperands
    /\ IF DivAssignAccepts(value.kind)
       THEN \E o \in Oracle(DivAssignLoop(vecs, dst, value, 1, 0, FALSE, "none").fault) :
              LET r == DivAssignLoop(vecs, dst, value, 1, o[2], o[1], "none")
              IN  /\ vecs' = r.store
                  /\ last' = Record("div_assign", dst, value, 0, 0, r.fault, o[1])
       ELSE /\ vecs' = vecs
            /\ last' = Rejected("div_assign", dst, value)
    /\ stmts' = stmts + 1
    /\ UNCHANGED <<rows, alive, heap, phase, uses, built, ops>>

\* template<typename RE> fast_vector& operator+=(RE&& rhs), rhs a vector or a T.
PlusAssignVec(dst, rhs) ==
    /\ CanStmt /\ dst \in alive
    /\ rhs \in VecOperands \cup ScalarOperands
    /\ IF PlusAssignAccepts(rhs.kind)
       THEN \E o \in Oracle(PlusAssignLoop(vecs, dst, heap, rhs, 1, 0, FALSE, "none").fault) :
              LET r == PlusAssignLoop(vecs, dst, heap, rhs, 1, o[2], o[1], "none")
              IN  /\ vecs' = r.store
                  /\ last' = Record("plus_assign", dst, rhs, 0, 0, r.fault, o[1])
       ELSE /\ vecs' = vecs
            /\ last' = Rejected("plus_assign", dst, rhs)
    /\ stmts' = stmts + 1
    /\ UNCHANGED <<rows, alive, heap, phase, uses, built, ops>>

----------------------------------------------------------------------------
\* Producers: no element is read, an expression object is constructed.

\* fast_vector::operator+ - * /
VecProducer(v, op, re) ==
    /\ CanOp /\ v \in alive
    /\ \/ phase = "none" /\ built < MaxExprs /\ re \in VecOperands \cup ScalarOperands
       \/ phase = "temp" /\ Len(heap) < MaxNodes /\ re = Root
    /\ IF ProducerAccepts(op, re.kind)
       THEN /\ heap' = Append(heap, Node(op, VecOperand(v), re))
            /\ phase' = "temp"
            /\ built' = IF phase = "none" THEN built + 1 ELSE built
            /\ last' = Record("producer", "-", re, 0, 0, "none", FALSE)
       ELSE /\ UNCHANGED <<heap, phase, built>>
            /\ last' = Rejected("producer", "-", re)
    /\ ops' = ops + 1
    /\ UNCHANGED <<vecs, rows, alive, uses, stmts>>

\* fast_vector_expr::operator+ - * /, called on the expression just built.
ExprProducer(op, re) ==
    /\ CanOp /\ phase = "temp" /\ Len(heap) < MaxNodes
    /\ re \in VecOperands \cup ScalarOperands
    /\ IF ProducerAccepts(op, re.kind)
       THEN /\ heap' = Append(heap, Node(op, Root, re))
            /\ last' = Record("producer", "-", re, 0, 0, "none", FALSE)
       ELSE /\ heap' = heap
            /\ last' = Rejected("producer", "-", re)
    /\ ops' = ops + 1
    /\ UNCHANGED <<vecs, rows, alive, phase, uses, built, stmts>>

\* auto e = <expression>; the temporaries of the full-expression end here.
StoreExpr ==
    /\ CanOp /\ phase = "temp"
    /\ heap' = DestroyTemporaries(heap)
    /\ phase' = "stored"
    /\ last' = Record("store", "-", Root, 0, 0, "none", FALSE)
    /\ ops' = ops + 1
    /\ UNCHANGED <<vecs, rows, alive, uses, built, stmts>>

\* fast_vector_expr(const fast_vector_expr&) / operator=(const&): deleted.
CopyExpr ==
    /\ CanOp /\ phase # "none"
    /\ IF ExprCopyAccepts
       THEN last' = Record("copy_expr", "-", Root, 0, 0, "none", FALSE)
       ELSE last' = Rejected("copy_expr", "-", Root)
    /\ ops' = ops + 1
    /\ UNCHANGED <<vecs, rows, alive, heap, phase, uses, built, stmts>>

\* The expression goes out of scope, or the statement that built it ends.
Discard ==
    /\ CanOp /\ phase # "none"
    /\ heap' = << >>
    /\ phase' = "none"
    /\ uses' = 0
    /\ last' = Record("discard", "-", Root, 0, 0, "none", FALSE)
    /\ ops' = ops + 1
    /\ UNCHANGED <<vecs, rows, alive, built, stmts>>

----------------------------------------------------------------------------
\* Consumers.  A temporary expression ends with its statement; a named one
\* is handed over with std::move and is left as it was.

AfterUse ==
    IF phase = "temp"
    THEN heap' = << >> /\ phase' = "none"
    ELSE UNCHANGED <<heap, phase>>

\* fast_vector& operator=(fast_vector_expr&& e)
AssignExpr(dst) ==
    /\ CanOp /\ phase # "none" /\ dst \in alive
    /\ \E o \in Oracle(MaterializeLoop(vecs, dst, heap, Len(heap), 1, 0, FALSE, "none").fault) :
         LET r == MaterializeLoop(vecs, dst, heap, Len(heap), 1, o[2], o[1], "none")
         IN  /\ vecs' = r.store
             /\ last' = Record("assign_expr", dst, Root, 0, 0, r.fault, o[1])
    /\ uses' = uses + 1
    /\ AfterUse
    /\ ops' = ops + 1
    /\ UNCHANGED <<rows, alive, built, stmts>>

\* fast_vector(fast_vector_expr&& e): _data starts uninitialized.
ConstructExpr(dst) ==
    /\ CanOp /\ phase # "none" /\ dst \notin alive
    /\ \E o \in Oracle(MaterializeLoop([vecs EXCEPT ![dst] = FillData(rows[dst], 0)],
                                       dst, heap, Len(heap), 1, 0, FALSE, "none").fault) :
         LET r == MaterializeLoop([vecs EXCEPT ![dst] = FillData(rows[dst], o[2])],
                                  dst, heap, Len(heap), 1, o[2], o[1], "none")
         IN  /\ vecs' = r.store
             /\ last' = Record("construct_expr", dst, Root, 0, 0, r.fault, o[1])
    /\ alive' = alive \cup {dst}
    /\ uses' = uses + 1
    /\ AfterUse
    /\ ops' = ops + 1
    /\ UNCHANGED <<rows, built, stmts>>

\* template<typename RE> fast_vector& operator+=(RE&& rhs), rhs an expression.
PlusAssignExpr(dst) ==
    /\ CanOp /\ phase # "none" /\ dst \in alive
    /\ \E o \in Oracle(PlusAssignLoop(vecs, dst, heap, Root, 1, 0, FALSE, "none").fault) :
         LET r == PlusAssignLoop(vecs, dst, heap, Root, 1, o[2], o[1], "none")
         IN  /\ vecs' = r.store
             /\ last' = Record("plus_assign", dst, Root, 0, 0, r.fault, o[1])
    /\ AfterUse
    /\ ops' = ops + 1
    /\ UNCHANGED <<rows, alive, uses, built, stmts>>

\* fast_vector& operator/=(const T& value), handed an expression.
DivAssignExpr(dst) ==
    /\ CanOp /\ phase # "none" /\ dst \in alive
    /\ IF DivAssignAccepts(Root.kind)
       THEN \E o \in Oracle(DivAssignLoop(vecs, dst, Root, 1, 0, FALSE, "none").fault) :
              LET r == DivAssignLoop(vecs, dst, Root, 1, o[2], o[1], "none")
              IN  /\ vecs' = r.store
                  /\ last' = Record("div_assign", dst, Root, 0, 0, r.fault, o[1])
       ELSE /\ vecs' = vecs
            /\ last' = Rejected("div_assign", dst, Root)
    /\ ops' = ops + 1
    /\ UNCHANGED <<rows, alive, heap, phase, uses, built, stmts>>

\* fast_vector_expr::operator[](i) called directly: e[i].
EvalAt(i) ==
    /\ CanOp /\ phase # "none"
    /\ \E o \in Oracle(ExprAt(vecs, heap, Len(heap), i, 0).fault) :
         LET r == ExprAt(vecs, heap, Len(heap), i, o[2])
         IN  last' = Record("eval", "-", Root, i, r.val, r.fault, o[1])
    /\ AfterUse
    /\ ops' = ops + 1
    /\ UNCHANGED <<vecs, rows, alive, uses, built, stmts>>

----------------------------------------------------------------------------
Next ==
    \/ \E v \in VecNames, value \in Scalars : Fill(v, value)
    \/ \E v \in VecNames, i \in 1 .. N, value \in Scalars : SetAt(v, i, value)
    \/ \E y \in VecNames, x \in VecNames : MoveAssign(y, x)
    \/ \E y \in VecNames, x \in VecNames : MoveConstruct(y, x)
    \/ \E y \in VecNames, x \in VecNames : Copy(y, x)
    \/ \E dst \in VecNames :
         \E value \in ScalarOperands \cup ElemOperands \cup VecOperands :
           DivAssign(dst, value)
    \/ \E dst \in VecNames, rhs \in VecOperands \cup ScalarOperands :
         PlusAssignVec(dst, rhs)
    \/ \E v \in VecNames, op \in Ops :
         \E re \in VecOperands \cup ScalarOperands \cup {Root} : VecProducer(v, op, re)
    \/ \E op \in Ops, re \in VecOperands \cup ScalarOperands : ExprProducer(op, re)
    \/ StoreExpr
    \/ CopyExpr
    \/ Discard
    \/ \E dst \in VecNames : AssignExpr(dst)
    \/ \E dst \in VecNames : ConstructExpr(dst)
    \/ \E dst \in VecNames : PlusAssignExpr(dst)
    \/ \E dst \in VecNames : DivAssignExpr(dst)
    \/ \E i \in 1 .. N : EvalAt(i)

Spec == Init /\ [][Next]_vars

\* The programs that build no expression: fills, element writes, moves,
\* copies and the compound updates with a vector or a scalar.
NextDirect ==
    \/ \E v \in VecNames, value \in Scalars : Fill(v, value)
    \/ \E v \in VecNames, i \in 1 .. N, value \in Scalars : SetAt(v, i, value)
    \/ \E y \in VecNames, x \in VecNames : MoveAssign(y, x)
    \/ \E y \in VecNames, x \in VecNames : MoveConstruct(y, x)
    \/ \E y \in VecNames, x \in VecNames : Copy(y, x)
    \/ \E dst \in VecNames :
         \E value \in ScalarOperands \cup ElemOperands \cup VecOperands :
           DivAssign(dst, value)
    \/ \E dst \in VecNames, rhs \in VecOperands \cup ScalarOperands :
         PlusAssignVec(dst, rhs)

SpecDirect == Init /\ [][NextDirect]_vars

----------------------------------------------------------------------------
\* The reference evaluator of an expression tree: the value the tree has at
\* index i on the vectors of `store`, whatever holds its nodes.

RECURSIVE RefValue(_, _, _, _)
RefValue(store, hp, o, i) ==
    CASE o.kind = "scalar" -> o.num
      [] o.kind = "elem" -> store[o.name][o.num]
      [] o.kind = "vec" -> store[o.name][i]
      [] o.kind = "expr" ->
            LET l == RefValue(store, hp, hp[o.num].lhs, i)
                r == RefValue(store, hp, hp[o.num].rhs, i)
            IN  CASE hp[o.num].op = "plus" -> (l + r) % Modulus
                  [] hp[o.num].op = "minus" -> (l - r) % Modulus
                  [] hp[o.num].op = "mul" -> (l * r) % Modulus
                  [] hp[o.num].op = "div" -> l \div r

\* Every vector of the tree has n elements.
RECURSIVE SameLength(_, _, _, _)
SameLength(store, hp, o, n) ==
    CASE o.kind = "vec" -> Len(store[o.name]) = n
      [] o.kind = "expr" -> /\ SameLength(store, hp, hp[o.num].lhs, n)
                            /\ SameLength(store, hp, hp[o.num].rhs, n)
      [] OTHER -> TRUE

\* The tree divides by no zero at index i.
RECURSIVE NoZeroDivisor(_, _, _, _)
NoZeroDivisor(store, hp, o, i) ==
    IF o.kind # "expr"
    THEN TRUE
    ELSE /\ NoZeroDivisor(store, hp, hp[o.num].lhs, i)
         /\ NoZeroDivisor(store, hp, hp[o.num].rhs, i)
         /\ hp[o.num].op = "div" => RefValue(store, hp, hp[o.num].rhs, i) # 0

\* The last operation took an operand tree that is defined at every index
\* of the vector dst: same lengths, no division by zero.
WellFormed(dst) ==
    /\ SameLength(last.pre, last.heap, last.rhs, Len(vecs[dst]))
    /\ \A i \in 1 .. Len(vecs[dst]) : NoZeroDivisor(last.pre, last.heap, last.rhs, i)

Materialized == last.stmt \in {"assign_expr", "construct_expr"}
Writers == {"fill", "set", "move", "div_assign", "plus_assign",
            "assign_expr", "construct_expr"}

----------------------------------------------------------------------------
\* C1: after a vector is constructed or assigned from an expression tree,
\* every element i of it is the value the tree has at i under the reference
\* evaluator, also when the vector is a leaf of the tree.
CexC1 ==
    (Materialized /\ WellFormed(last.dst)) =>
        \A i \in 1 .. Len(vecs[last.dst]) :
            vecs[last.dst][i] = RefValue(last.pre, last.heap, last.rhs, i)

\* C2: after a += r, r a vector or an expression of the same length, every
\* a[i] is old a[i] + r[i], r[i] taken on the old elements; no other vector
\* changes.
CexC2 ==
    (last.stmt = "plus_assign" /\ last.accepted /\ WellFormed(last.dst)) =>
        /\ \A i \in 1 .. Len(vecs[last.dst]) :
              vecs[last.dst][i] =
                 (last.pre[last.dst][i]
                    + RefValue(last.pre, last.heap, last.rhs, i)) % Modulus
        /\ \A v \in VecNames \ {last.dst} : vecs[v] = last.pre[v]

\* C3: no accepted materialization or compound update indexes an operand
\* vector past its length.
CexC3 == last.fault # "oob"

\* C4: nested expressions are held by value, so that no evaluation of an
\* expression reads a destroyed temporary while the named vectors live.
CexC4 == last.fault # "dangling"

\* C5: after y is move-constructed or move-assigned from x, y holds the
\* elements x had; x still holds Rows elements of T; no copy between
\* vectors is accepted.
ThmC5 ==
    /\ (last.stmt = "move" /\ last.accepted) =>
          /\ vecs[last.dst] = last.pre[last.rhs.name]
          /\ Len(vecs[last.rhs.name]) = rows[last.rhs.name]
          /\ \A j \in 1 .. rows[last.rhs.name] : vecs[last.rhs.name][j] \in T
    /\ last.stmt = "copy" => ~last.accepted

WitC5 ==
    /\ last.stmt = "move" /\ last.accepted
    /\ last.dst # last.rhs.name
    /\ last.pre[last.dst] # last.pre[last.rhs.name]
    /\ vecs[last.dst] = last.pre[last.rhs.name]

\* The operand a /= r was given, at index i, as the claim reads it.
RhsAt(i) ==
    IF last.rhs.kind = "vec" /\ i > Len(last.pre[last.rhs.name])
    THEN 0
    ELSE RefValue(last.pre, last.heap, last.rhs, i)

\* C6 as stated: a /= r accepts a vector, a scalar or an expression, and
\* sets every a[i] to old a[i] / r[i].
CexC6 ==
    last.stmt = "div_assign" =>
        /\ last.accepted
        /\ last.fault = "none" =>
              \A i \in 1 .. Len(vecs[last.dst]) :
                  /\ RhsAt(i) # 0
                  /\ vecs[last.dst][i] = last.pre[last.dst][i] \div RhsAt(i)

\* The value the scalar of a /= value holds when index i is reached: it is
\* read through the reference, so an element of a itself at an index below
\* i has been divided already.
DivisorSeen(i) ==
    IF last.rhs.kind = "elem" /\ last.rhs.name = last.dst /\ last.rhs.num < i
    THEN vecs[last.dst][last.rhs.num]
    ELSE ValueOf(last.pre, last.rhs)

\* C6, amended: a /= value accepts a scalar of type T only (a vector or an
\* expression is rejected); every a[i] becomes old a[i] divided by the value
\* the scalar holds when index i is reached; no other vector changes; and
\* (4,6,8) /= 2 is (2,3,4).
ThmC6 ==
    /\ last.stmt = "div_assign" =>
          /\ last.accepted <=> last.rhs.kind \in {"scalar", "elem"}
          /\ (last.accepted /\ last.fault = "none") =>
                /\ \A i \in 1 .. Len(vecs[last.dst]) :
                      vecs[last.dst][i] = last.pre[last.dst][i] \div DivisorSeen(i)
                /\ \A v \in VecNames \ {last.dst} : vecs[v] = last.pre[v]
    /\ DivAssignLoop([a |-> <<4, 6, 8>>], "a", ScalarOperand(2), 1, 0, FALSE, "none").store
          = [a |-> <<2, 3, 4>>]

WitC6 ==
    /\ last.stmt = "div_assign" /\ last.accepted /\ last.fault = "none"
    /\ last.rhs.kind = "scalar"
    /\ \E i \in 1 .. Len(vecs[last.dst]) : vecs[last.dst][i] # last.pre[last.dst][i]

\* The last operation evaluated a * s or a / s, a a vector and s a scalar.
BroadcastEval ==
    /\ last.stmt = "eval" /\ last.fault = "none"
    /\ Len(last.heap) = 1
    /\ last.heap[1].lhs.kind = "vec"
    /\ last.heap[1].rhs.kind = "scalar"

\* C7: (a * s)[i] = a[i] * s and (a / s)[i] = a[i] / s at every index, and
\* the scalar wrapper gives its value at every index.
ThmC7 ==
    /\ BroadcastEval =>
          LET x == last.pre[last.heap[1].lhs.name][last.idx]
              s == last.heap[1].rhs.num
          IN  /\ last.heap[1].op = "mul" => last.val = (x * s) % Modulus
              /\ last.heap[1].op = "div" => last.val = x \div s
    /\ \A s \in Scalars, i \in 1 .. N : ScalarAt(s, i) = s

WitC7 ==
    /\ BroadcastEval
    /\ last.heap[1].op = "mul"
    /\ last.idx = N
    /\ last.val = (last.pre[last.heap[1].lhs.name][N] * last.heap[1].rhs.num) % Modulus
    /\ last.val # last.pre[last.heap[1].lhs.name][N]

\* C8: an expression is materialized at most once.
CexC8 == uses <= 1

CexC10 ==
    (last.stmt = "div_assign" /\ last.accepted /\ last.fault = "none") =>
        \A i \in 1 .. Len(vecs[last.dst]) :
            vecs[last.dst][i] = last.pre[last.dst][i] \div ValueOf(last.pre, last.rhs)

====
